---- MODULE Spec2Model ----
(***************************************************************************)
(* Model of the queue-based WhatsApp bulk-messaging server                 *)
(* (src/server.js, lines 326-695): the connection lifecycle kept in the    *)
(* globals client / connectionStatus / qrCodeData, the serialized send     *)
(* queue (messageQueue, isProcessingQueue, processMessageQueue) and the    *)
(* HTTP handlers /disconnect and /send-bulk-messages.                      *)
(*                                                                         *)
(* JavaScript runs one callback at a time.  A step of the model is the     *)
(* code that runs between two suspension points (an await on the driver,   *)
(* on a timer or on the settlement of the tasks' promises).  An await on   *)
(* an already finished async function (await clearAuthData()) only hops    *)
(* through the microtask queue: no driver event, timer or request can run  *)
(* in between, which the variable lock records.                            *)
(*                                                                         *)
(* The run is unbounded: a handler activation that has returned frees its  *)
(* slot, the tasks of an answered request are forgotten once nothing       *)
(* refers to them (the later tasks move down, keeping their push order),   *)
(* and the name of a destroyed driver instance that nothing refers to any  *)
(* more is used again.                                                     *)
(***************************************************************************)
EXTENDS Integers, Sequences, FiniteSets, TLC

\* ---------------------------------------------------------------- bounds
MaxProcs == 2        \* handler activations running at the same time
MaxTasks == 2        \* SendTasks of unanswered requests at the same time
MaxLoops == 2        \* slots for activations of processMessageQueue
MaxRaw == 3          \* characters of a recipient drawn from RawChars

Procs == 1..MaxProcs
Loops == 1..MaxLoops
\* names of driver instances: the one client refers to and the ones the
\* activations refer to; a superseded instance that nothing refers to any
\* more has no name (only its events matter, see stale)
Clients == 1..(MaxProcs + 1)
StaleClient == 0
Emitters == Clients \cup {StaleClient}

\* ------------------------------------------------------------- constants
NoClient == 0        \* client = null / undefined
NoTask == 0

\* request bodies of /send-bulk-messages (message, mediaPaths): "img" and
\* "vid" are files of the upload directory, "gone" does not exist
NoBody == [ msg |-> FALSE, media |-> <<>> ]
TextBody == [ msg |-> TRUE, media |-> <<>> ]
Bodies == { NoBody,
            TextBody,
            [ msg |-> TRUE, media |-> <<"img", "vid">> ],
            [ msg |-> FALSE, media |-> <<"gone", "img">> ] }
ExistingFiles == {"img", "vid"}

\* a recipient is a string, written as the sequence of its characters
Digits == {"0", "1", "2", "3", "4", "5", "6", "7", "8", "9"}

\* an element of numbers that has no toString (null): numbers.map throws
Null == << "null" >>

\* the recipients of the requests: "01", "02", ...
Recipient(i) == << "0", ToString(i) >>

\* replace(/\D/g, ''): the digits of s, in order
RECURSIVE StripNonDigits(_)
StripNonDigits(s) ==
    IF s = <<>> THEN <<>>
    ELSE (IF Head(s) \in Digits THEN << Head(s) >> ELSE <<>>) \o StripNonDigits(Tail(s))

\* startsWith('20')
StartsWith20(s) == Len(s) >= 2 /\ s[1] = "2" /\ s[2] = "0"

\* a normalization that prepends the country code whatever the digits are
NormalizeAlways(raw) == << "2", "0" >> \o StripNonDigits(raw)

\* formattedNumber: the digits of the recipient, with the country code 20
\* in front when they do not start with it
Normalize(raw) ==
    LET formattedNumber == StripNonDigits(raw) IN
    IF StartsWith20(formattedNumber) THEN formattedNumber
    ELSE << "2", "0" >> \o formattedNumber

VARIABLES
    client,             \* the global client: a driver instance or NoClient
    connectionStatus,   \* the global connectionStatus
    qrCodeData,         \* the global qrCodeData: TRUE when a QR payload is stored
    messageQueue,       \* the global messageQueue: sequence of task ids
    isProcessingQueue,  \* the global isProcessingQueue
    driver,             \* per named driver instance: "none" | "live"
    stale,              \* TRUE when a superseded instance nothing refers to is alive
    isReady,            \* client.isReady of the instance client refers to
    task,               \* the SendTasks of the unanswered requests, in push order
    drain,              \* the activations of processMessageQueue
    proc,               \* the handler activations
    lock,               \* the activation whose microtask chain is running, or 0
    lastTaken           \* history: the task the drain loop took last

vars == << client, connectionStatus, qrCodeData, messageQueue, isProcessingQueue,
           driver, stale, isReady, task, drain, proc, lock, lastTaken >>

\* the variables processMessageQueue reads and writes, as one value
QueueState == [ q |-> messageQueue, t |-> task, d |-> drain,
                f |-> isProcessingQueue, last |-> lastTaken ]

\* pc: where the activation is suspended; task: the task of this iteration;
\* k: the index of the media file being sent (0: the text); caption: the
\* send of file k carries the text as its caption; ans: what the driver call
\* of the iteration settled with, until the loop resumes
IdleLoop == [ pc |-> "idle", task |-> NoTask, k |-> 0, caption |-> FALSE, ans |-> "none" ]

\* raw: the recipient as the request gave it; number: the task's number;
\* execs: times the loop took the task; settles: calls of resolve and
\* reject; state: the promise; error: the error the promise was rejected with
NewTask(body, raw) ==
    [ raw |-> raw, number |-> Normalize(raw), msg |-> body.msg, media |-> body.media,
      execs |-> 0, settles |-> 0, state |-> "pending", error |-> "none" ]

\* n: the tasks of the request, task[first+1] .. task[first+n]; left: the
\* tasks a request pushed before numbers.map threw
IdleProc ==
    [ kind |-> "none", pc |-> "idle", target |-> NoClient, n |-> 0, first |-> 0,
      left |-> 0, resp |-> "none", success |-> <<>>, failed |-> <<>> ]

NewProc(kind) == [ IdleProc EXCEPT !.kind = kind, !.pc = "start" ]

\* ------------------------------------------------------------ the queue

\* task.resolve / task.reject: a promise keeps its first settlement
Settle(D, t, outcome) ==
    [ D EXCEPT !.t[t].state = IF @ = "pending" THEN outcome ELSE @,
               !.t[t].settles = @ + 1 ]

\* a loop without its messageQueue.shift()
NoShift(q) == q

\* messageQueue.shift(): removes the head of whatever array messageQueue is now
Shift(q) == IF Len(q) = 0 THEN q ELSE Tail(q)

\* a loop that gives up when a task fails: it drops what is queued and ends
FinishTaskAbort(D, l, t, outcome) ==
    LET S == Settle(D, t, outcome) IN
    IF outcome = "rejected"
    THEN [ S EXCEPT !.q = <<>>, !.f = FALSE, !.d[l] = IdleLoop ]
    ELSE [ S EXCEPT !.q = Shift(@), !.d[l] = [ IdleLoop EXCEPT !.pc = "pacing" ] ]

\* a loop that resets isProcessingQueue before its last 3 s timer
FinishTaskEarlyReset(D, l, t, outcome) ==
    LET S == Settle(D, t, outcome) IN
    [ S EXCEPT !.q = Shift(@),
               !.f = Len(Shift(S.q)) > 0,
               !.d[l] = [ IdleLoop EXCEPT !.pc = "pacing" ] ]

\* the end of one iteration: settle the task, shift, start the 3 s timer
FinishTask(D, l, t, outcome) ==
    LET S == Settle(D, t, outcome) IN
    [ S EXCEPT !.q = Shift(@),
               !.d[l] = [ IdleLoop EXCEPT !.pc = "pacing" ] ]

\* the catch block: task.reject with the message of the error thrown, then
\* the end of the iteration
RejectTask(D, l, t, reason) ==
    FinishTask([ D EXCEPT !.t[t].error = IF D.t[t].state = "pending" THEN reason ELSE @ ],
               l, t, "rejected")

\* a loop that takes the newest task
TakeLast(q) == q[Len(q)]

\* the task the loop takes: messageQueue[0]
TakeHead(q) == Head(q)

\* the top of the while body up to its first await: take the head and call
\* client.isRegisteredUser; with client = null the call throws a TypeError,
\* which the catch turns into task.reject
IterationStart(D, l, cl) ==
    LET t == TakeHead(D.q)
        L == [ D EXCEPT !.last = t, !.t[t].execs = @ + 1 ] IN
    IF cl = NoClient
    THEN RejectTask(L, l, t, "TypeError")
    ELSE [ L EXCEPT !.d[l] = [ IdleLoop EXCEPT !.pc = "checking", !.task = t ] ]

\* a guard that does not look at isProcessingQueue
QueueGuardNoFlag(D) == Len(D.q) = 0

\* the guard of processMessageQueue
QueueGuard(D) == D.f \/ Len(D.q) = 0

FreeLoops(D) == { l \in Loops : D.d[l].pc = "idle" }

\* processMessageQueue() up to its first await
ProcessMessageQueue(D, cl) ==
    IF QueueGuard(D) \/ FreeLoops(D) = {}
    THEN D
    ELSE LET l == CHOOSE x \in FreeLoops(D) : \A y \in FreeLoops(D) : x <= y IN
         IterationStart([ D EXCEPT !.f = TRUE ], l, cl)

\* the code after isRegisteredUser answered true, from media index k on,
\* up to the next await: every media file is sent with caption: message
SendNext(D, l, t, k, cl) ==
    LET tk == D.t[t] IN
    IF Len(tk.media) > 0
    THEN IF k > Len(tk.media)
         THEN FinishTask(D, l, t, "fulfilled")
         ELSE IF tk.media[k] \notin ExistingFiles
              THEN RejectTask(D, l, t, "FileMissing")
              ELSE IF cl = NoClient
              THEN RejectTask(D, l, t, "TypeError")
              ELSE [ D EXCEPT !.d[l] = [ IdleLoop EXCEPT !.pc = "sending", !.task = t, !.k = k,
                                                         !.caption = tk.msg ] ]
    ELSE IF tk.msg
         THEN IF cl = NoClient
              THEN RejectTask(D, l, t, "TypeError")
              ELSE [ D EXCEPT !.d[l] = [ IdleLoop EXCEPT !.pc = "sending", !.task = t ] ]
         ELSE FinishTask(D, l, t, "fulfilled")

\* a loop that does not test isRegistered
AfterRegisteredUnchecked(D, l, t, ans, cl) ==
    IF ans = "error" THEN RejectTask(D, l, t, "DriverError") ELSE SendNext(D, l, t, 1, cl)

\* the code after isRegisteredUser settled with ans ("error": it threw)
AfterRegistered(D, l, t, ans, cl) ==
    IF ans = "yes" THEN SendNext(D, l, t, 1, cl)
    ELSE RejectTask(D, l, t, IF ans = "no" THEN "NotRegistered" ELSE "DriverError")

\* a media loop that goes on with the next file when a send has thrown
AfterSendIgnoreError(D, l, t, k, ans, cl) ==
    IF k = 0
    THEN IF ans = "ok" THEN FinishTask(D, l, t, "fulfilled")
         ELSE RejectTask(D, l, t, "DriverError")
    ELSE SendNext(D, l, t, k + 1, cl)

\* the code after sendMessage settled with ans, for the text (k = 0) or for
\* media file k
AfterSend(D, l, t, k, ans, cl) ==
    IF ans = "ok"
    THEN IF k = 0 THEN FinishTask(D, l, t, "fulfilled") ELSE SendNext(D, l, t, k + 1, cl)
    ELSE RejectTask(D, l, t, "DriverError")

\* the while condition after the pacing timer
AfterPacing(D, l, cl) ==
    IF Len(D.q) > 0
    THEN IterationStart(D, l, cl)
    ELSE [ D EXCEPT !.f = FALSE, !.d[l] = IdleLoop ]

SetQueueState(D) ==
    /\ messageQueue' = D.q
    /\ task' = D.t
    /\ drain' = D.d
    /\ isProcessingQueue' = D.f
    /\ lastTaken' = D.last

Init ==
    /\ client = 1
    /\ connectionStatus = "initializing"
    /\ qrCodeData = FALSE
    /\ messageQueue = <<>>
    /\ isProcessingQueue = FALSE
    /\ driver = [ c \in Clients |-> IF c = 1 THEN "live" ELSE "none" ]
    /\ stale = FALSE
    /\ isReady = FALSE
    /\ task = <<>>
    /\ drain = [ l \in Loops |-> IdleLoop ]
    /\ proc = [ p \in Procs |-> IdleProc ]
    /\ lock = 0
    /\ lastTaken = NoTask

\* ------------------------------------------------------- the lifecycle

IdleProcs == { p \in Procs : proc[p].pc = "idle" }
NewSlot == CHOOSE p \in IdleProcs : \A q \in IdleProcs : p <= q

\* names free for a new driver instance
FreeIds == { c \in Clients : driver[c] = "none" /\ \A p \in Procs : proc[p].target # c }
NewId == CHOOSE c \in FreeIds : \A d \in FreeIds : c <= d

\* no queue entry and no loop refers to the tasks of rec
Unreferenced(rec) ==
    \A i \in 1..rec.n :
        /\ \A j \in 1..Len(messageQueue) : messageQueue[j] # rec.first + i
        /\ \A l \in Loops : drain[l].task # rec.first + i

\* the handler of p has returned after numbers.map threw, and the tasks it
\* had pushed are no longer queued or executed: nothing refers to them
Forgettable(p) ==
    /\ proc[p].pc = "left"
    /\ \A i \in 1..proc[p].left :
           /\ \A j \in 1..Len(messageQueue) : messageQueue[j] # proc[p].first + i
           /\ \A l \in Loops : drain[l].task # proc[p].first + i

\* every promise of the request of p is settled: Promise.allSettled resolves
\* and the handler resumes in the microtask queue
Respondable(p) ==
    /\ proc[p].pc = "awaiting"
    /\ \A i \in 1..proc[p].n : task[proc[p].first + i].state # "pending"
    /\ Unreferenced(proc[p])

\* no handler is in the middle of its microtask chain
Unlocked == lock = 0 /\ \A l \in Loops : drain[l].ans = "none"

\* no microtask is pending: the event loop may run a driver event, a timer
\* or a request
Quiet == Unlocked /\ \A p \in Procs : ~Respondable(p) /\ ~Forgettable(p)

\* room for one more handler activation
CanStart == Quiet /\ IdleProcs # {}

\* client?.isReady.  The property is kept by the driver, not by the server:
\* it is taken to be true from the instance's 'ready' until the instance
\* emits 'disconnected' or is destroyed (the variable isReady).
IsReady(cl, rdy) == cl # NoClient /\ rdy

\* the live instances that neither cl nor an activation of pr refers to
Superseded(drv, cl, pr) ==
    { c \in Clients : drv[c] = "live" /\ c # cl /\ \A p \in Procs : pr[p].target # c }

\* the drivers that exist once client is cl and the activations are pr
SetDrivers(drv, cl, pr) ==
    /\ driver' = [ c \in Clients |-> IF c \in Superseded(drv, cl, pr) THEN "none" ELSE drv[c] ]
    /\ stale' = (stale \/ Superseded(drv, cl, pr) # {})

\* initializeWhatsApp(): sets the status and constructs a new Client without
\* looking at the current status; pr are the activations after the call
InitializeWhatsApp(pr) ==
    /\ connectionStatus' = "initializing"
    /\ client' = NewId
    /\ isReady' = FALSE
    /\ SetDrivers([ driver EXCEPT ![NewId] = "live" ], NewId, pr)

\* destroyClient() up to its await, run by a new activation rec; with no
\* client there is no await and the activation goes on in the same tick
DestroyClientStart(rec) ==
    /\ connectionStatus' = IF client = NoClient THEN "disconnected" ELSE "disconnecting"
    /\ qrCodeData' = IF client = NoClient THEN FALSE ELSE qrCodeData
    /\ proc' = [ proc EXCEPT ![NewSlot] =
                   [ rec EXCEPT !.pc = IF client = NoClient THEN "wipe" ELSE "destroying",
                                !.target = client ] ]
    /\ lock' = IF client = NoClient THEN NewSlot ELSE 0

\* client.destroy() settles: the rest of destroyClient
DestroyReply(p, ok) ==
    /\ Quiet
    /\ proc[p].pc = "destroying"
    /\ client' = IF ok THEN NoClient ELSE client
    /\ isReady' = IF ok THEN FALSE ELSE isReady
    /\ connectionStatus' = "disconnected"
    /\ qrCodeData' = FALSE
    /\ proc' = [ proc EXCEPT ![p].pc = "wipe", ![p].target = NoClient ]
    /\ SetDrivers(IF ok THEN [ driver EXCEPT ![proc[p].target] = "none" ] ELSE driver,
                  client', proc')
    /\ lock' = p
    /\ UNCHANGED << messageQueue, isProcessingQueue, task, drain, lastTaken >>

\* clearAuthData(): removes .wwebjs_auth; touches none of the globals
ClearAuthData(p) ==
    /\ lock = p
    /\ proc[p].pc = "wipe"
    /\ proc' = [ proc EXCEPT ![p].pc = "reinit" ]
    /\ UNCHANGED << client, connectionStatus, qrCodeData, messageQueue, isProcessingQueue,
                    driver, stale, isReady, task, drain, lock, lastTaken >>

\* a 'disconnected' handler that does not call initializeWhatsApp
DisconnectedNoReinit(p) ==
    /\ lock = p
    /\ proc[p].pc = "reinit"
    /\ proc[p].kind = "evt"
    /\ messageQueue' = <<>>
    /\ proc' = [ proc EXCEPT ![p].pc = "done" ]
    /\ UNCHANGED << client, connectionStatus, qrCodeData, isProcessingQueue, driver, stale,
                    isReady, task, drain, lock, lastTaken >>

\* the 'disconnected' handler after its two awaits
DisconnectedReinit(p) ==
    /\ lock = p
    /\ proc[p].pc = "reinit"
    /\ proc[p].kind = "evt"
    /\ messageQueue' = <<>>
    /\ proc' = [ proc EXCEPT ![p].pc = "done" ]
    /\ InitializeWhatsApp(proc')
    /\ UNCHANGED << qrCodeData, isProcessingQueue, task, drain, lock, lastTaken >>

\* a /disconnect that does not clear the queue
HttpDisconnectKeepQueue(p) ==
    /\ lock = p
    /\ proc[p].pc = "reinit"
    /\ proc[p].kind = "http"
    /\ connectionStatus' = "initializing"
    /\ proc' = [ proc EXCEPT ![p].pc = "startSession" ]
    /\ UNCHANGED << client, qrCodeData, messageQueue, isProcessingQueue, driver, stale,
                    isReady, task, drain, lock, lastTaken >>

\* POST /disconnect after its two awaits: clears the queue and sets
\* 'initializing' itself ...
HttpDisconnectReset(p) ==
    /\ lock = p
    /\ proc[p].pc = "reinit"
    /\ proc[p].kind = "http"
    /\ messageQueue' = <<>>
    /\ connectionStatus' = "initializing"
    /\ proc' = [ proc EXCEPT ![p].pc = "startSession" ]
    /\ UNCHANGED << client, qrCodeData, isProcessingQueue, driver, stale, isReady, task,
                    drain, lock, lastTaken >>

\* ... then calls initializeWhatsApp and answers
HttpDisconnectReinit(p) ==
    /\ lock = p
    /\ proc[p].pc = "startSession"
    /\ proc' = [ proc EXCEPT ![p].pc = "done", ![p].resp = "200" ]
    /\ InitializeWhatsApp(proc')
    /\ UNCHANGED << qrCodeData, messageQueue, isProcessingQueue, task, drain,
                    lock, lastTaken >>

\* ensureConnection after its two awaits: re-initializes and waits for the
\* new client's 'ready' (or the 30 s timer)
EnsureReinit(p) ==
    /\ lock = p
    /\ proc[p].pc = "reinit"
    /\ proc[p].kind = "batch"
    /\ proc' = [ proc EXCEPT ![p].pc = "waitReady", ![p].target = NewId ]
    /\ InitializeWhatsApp(proc')
    /\ lock' = 0
    /\ UNCHANGED << qrCodeData, messageQueue, isProcessingQueue, task, drain, lastTaken >>

\* a request answered without a report
Answered(rec, code) == [ rec EXCEPT !.pc = "done", !.resp = code, !.target = NoClient ]

\* an ensureConnection without its timer
NoReadyTimeout(p) ==
    /\ Quiet
    /\ proc[p].pc = "waitReady"
    /\ FALSE
    /\ UNCHANGED vars

\* the 30 s timer of ensureConnection: the request is answered 500
ReadyTimeout(p) ==
    /\ Quiet
    /\ proc[p].pc = "waitReady"
    /\ proc' = [ proc EXCEPT ![p] = Answered(@, "500") ]
    /\ SetDrivers(driver, client, proc')
    /\ lock' = p
    /\ UNCHANGED << client, connectionStatus, qrCodeData, messageQueue, isProcessingQueue,
                    isReady, task, drain, lastTaken >>

\* ------------------------------------------------ /send-bulk-messages

\* a request body: numbers (n of them), message and mediaPaths
Request(numbers, body) == [ n |-> Len(numbers), numbers |-> numbers, body |-> body ]

\* The requests: no recipient, one recipient with any body, several
\* recipients with a text, or a recipient followed by null.  The handler
\* reads req.body only after ensureConnection, so the body is drawn there.
Requests ==
    { Request(<<>>, NoBody), Request(<< Recipient(1), Null >>, TextBody) }
    \cup { Request(<< Recipient(1) >>, body) : body \in Bodies }
    \cup { Request([ i \in 1..n |-> Recipient(i) ], TextBody) : n \in 2..MaxTasks }

\* number.toString() throws for some element of numbers
Throws(req) == \E i \in 1..req.n : req.numbers[i] = Null

\* the recipients numbers.map handles before it throws
Pushed(req) == Cardinality({ i \in 1..req.n : \A j \in 1..i : req.numbers[j] # Null })

\* a handler that does not check numbers
BatchAcceptedUnchecked(req, rdy) == rdy

\* the handler after ensureConnection: rdy is client?.isReady, then the
\* check of numbers
BatchAccepted(req, rdy) == rdy /\ req.n > 0

\* numbers.map(...): one task per recipient, pushed in order
RECURSIVE PushAll(_, _, _)
PushAll(D, req, i) ==
    IF i = 0 THEN D
    ELSE LET P == PushAll(D, req, i - 1) IN
         [ P EXCEPT !.t = Append(@, NewTask(req.body, req.numbers[i])),
                    !.q = Append(@, Len(P.t) + 1) ]

\* the handler suspends at Promise.allSettled
Suspends(req, rdy) == BatchAccepted(req, rdy) /\ ~Throws(req)

\* the queue after the handler's synchronous part: when numbers.map throws,
\* the tasks pushed so far stay queued and processMessageQueue is not called
BatchQueue(D, req, rdy, cl) ==
    IF ~BatchAccepted(req, rdy) THEN D
    ELSE IF Throws(req) THEN PushAll(D, req, Pushed(req))
    ELSE ProcessMessageQueue(PushAll(D, req, req.n), cl)

\* the activation after the handler's synchronous part; what numbers.map
\* throws is caught and answered 500
BatchRecord(D, rec, req, rdy) ==
    IF ~BatchAccepted(req, rdy) THEN Answered(rec, "400")
    ELSE IF Throws(req)
    THEN [ Answered(rec, "500") EXCEPT !.first = Len(D.t), !.left = Pushed(req) ]
    ELSE [ rec EXCEPT !.pc = "awaiting", !.first = Len(D.t), !.n = req.n,
                      !.target = NoClient ]

\* the promises of a request, in the order of its recipients
TaskIds(rec) == [ i \in 1..rec.n |-> rec.first + i ]

\* a forEach without its else: every result is also pushed to failed
ReportFailedNoElse(ids, T) == ids

\* the forEach over Promise.allSettled's results
ReportSuccess(ids, T) == SelectSeq(ids, LAMBDA t : T[t].state = "fulfilled")
ReportFailed(ids, T) == SelectSeq(ids, LAMBDA t : T[t].state # "fulfilled")

\* Promise.allSettled resolves: build the report and answer
BatchRespond(p) ==
    /\ Unlocked
    /\ Respondable(p)
    /\ proc' = [ proc EXCEPT ![p].pc = "done", ![p].resp = "200",
                             ![p].success = ReportSuccess(TaskIds(proc[p]), task),
                             ![p].failed = ReportFailed(TaskIds(proc[p]), task) ]
    /\ lock' = p
    /\ UNCHANGED << client, connectionStatus, qrCodeData, messageQueue, isProcessingQueue,
                    driver, stale, isReady, task, drain, lastTaken >>

\* POST /send-bulk-messages arrives while the client is ready
HttpSendBulk(req) ==
    /\ CanStart
    /\ IsReady(client, isReady)
    /\ Len(task) + req.n <= MaxTasks
    /\ proc' = [ proc EXCEPT ![NewSlot] = BatchRecord(QueueState, NewProc("batch"), req, TRUE) ]
    /\ SetQueueState(BatchQueue(QueueState, req, TRUE, client))
    /\ lock' = IF Suspends(req, TRUE) THEN 0 ELSE NewSlot
    /\ UNCHANGED << client, connectionStatus, qrCodeData, driver, stale, isReady >>

\* POST /send-bulk-messages arrives while the client is not ready:
\* ensureConnection tears the session down
HttpSendBulkEnsure ==
    /\ CanStart
    /\ ~IsReady(client, isReady)
    /\ DestroyClientStart(NewProc("batch"))
    /\ UNCHANGED << client, messageQueue, isProcessingQueue, driver, stale, isReady,
                    task, drain, lastTaken >>

\* POST /disconnect arrives
HttpDisconnect ==
    /\ CanStart
    /\ DestroyClientStart(NewProc("http"))
    /\ UNCHANGED << client, messageQueue, isProcessingQueue, driver, stale, isReady,
                    task, drain, lastTaken >>

\* a task id after the tasks first+1 .. first+n were forgotten
Renumber(x, first, n) ==
    IF x > first + n THEN x - n ELSE IF x > first THEN first ELSE x

RECURSIVE RenumberSeq(_, _, _)
RenumberSeq(q, first, n) ==
    IF q = <<>> THEN <<>>
    ELSE << Renumber(Head(q), first, n) >> \o RenumberSeq(Tail(q), first, n)

\* what is left of an activation that has returned: the tasks it pushed
\* before numbers.map threw, which the queue still holds
Leftover(rec) ==
    IF rec.left = 0 THEN IdleProc
    ELSE [ IdleProc EXCEPT !.kind = "left", !.pc = "left", !.first = rec.first,
                           !.left = rec.left ]

\* the tasks first+1 .. first+n are forgotten and the slot of p becomes rec
ForgetTasks(p, first, n, rec) ==
    /\ task' = SubSeq(task, 1, first) \o SubSeq(task, first + n + 1, Len(task))
    /\ messageQueue' = RenumberSeq(messageQueue, first, n)
    /\ drain' = [ l \in Loops |-> [ drain[l] EXCEPT !.task = Renumber(@, first, n) ] ]
    /\ lastTaken' = Renumber(lastTaken, first, n)
    /\ proc' = [ q \in Procs |->
                   IF q = p THEN rec
                   ELSE [ proc[q] EXCEPT !.first = Renumber(@, first, n) ] ]

\* the handler returns: its activation ends and the tasks of its request,
\* all settled and no longer queued, are forgotten
Return(p) ==
    /\ lock = p
    /\ proc[p].pc = "done"
    /\ ForgetTasks(p, proc[p].first,
                   IF proc[p].resp = "200" /\ proc[p].kind = "batch" THEN proc[p].n ELSE 0,
                   Leftover(proc[p]))
    /\ lock' = 0
    /\ UNCHANGED << client, connectionStatus, qrCodeData, isProcessingQueue, driver, stale, isReady >>

\* the tasks a request left behind are forgotten once nothing refers to them
Forget(p) ==
    /\ Unlocked
    /\ Forgettable(p)
    /\ ForgetTasks(p, proc[p].first, proc[p].left, IdleProc)
    /\ UNCHANGED << client, connectionStatus, qrCodeData, isProcessingQueue, driver, stale,
                    isReady, lock >>

\* ----------------------------------------------------- driver events

\* instance c (a named one, or a superseded one) is alive and may emit
Live(c) == Quiet /\ IF c = StaleClient THEN stale ELSE driver[c] = "live"

DriverQr(c) ==
    /\ Live(c)
    /\ connectionStatus' = "waiting-for-qr"
    /\ qrCodeData' = TRUE
    /\ UNCHANGED << client, messageQueue, isProcessingQueue, driver, stale, isReady,
                    task, drain, proc, lock, lastTaken >>

DriverLoadingScreen(c) ==
    /\ Live(c)
    /\ connectionStatus' = "connecting"
    /\ UNCHANGED << client, qrCodeData, messageQueue, isProcessingQueue, driver, stale,
                    isReady, task, drain, proc, lock, lastTaken >>

DriverAuthenticated(c) ==
    /\ Live(c)
    /\ connectionStatus' = "authenticating"
    /\ UNCHANGED << client, qrCodeData, messageQueue, isProcessingQueue, driver, stale,
                    isReady, task, drain, proc, lock, lastTaken >>

\* 'auth_failure', and the rejection of client.initialize()
DriverAuthFailure(c) ==
    /\ Live(c)
    /\ connectionStatus' = "disconnected"
    /\ UNCHANGED << client, qrCodeData, messageQueue, isProcessingQueue, driver, stale,
                    isReady, task, drain, proc, lock, lastTaken >>

Waiters(c) == { p \in Procs : proc[p].pc = "waitReady" /\ proc[p].target = c }

\* the 'ready' handler of initializeWhatsApp; the driver has set c.isReady
OnReady(c) ==
    /\ connectionStatus' = "connected"
    /\ qrCodeData' = FALSE
    /\ isReady' = (isReady \/ c = client)
    /\ client' = client

\* 'ready' of a client no request waits for
DriverReady(c) ==
    /\ Live(c)
    /\ Waiters(c) = {}
    /\ OnReady(c)
    /\ SetQueueState(ProcessMessageQueue(QueueState, client))
    /\ UNCHANGED << driver, stale, proc, lock >>

\* 'ready' of the client a request waits for: the handler of
\* initializeWhatsApp runs first, then the once handler of ensureConnection
\* resumes the request
DriverReadyResume(c, req) ==
    /\ Live(c)
    /\ Waiters(c) # {}
    /\ Len(task) + req.n <= MaxTasks
    /\ OnReady(c)
    /\ LET D == ProcessMessageQueue(QueueState, client)
           p == CHOOSE x \in Waiters(c) : TRUE
           rdy == IsReady(client, isReady') IN
       /\ SetQueueState(BatchQueue(D, req, rdy, client))
       /\ proc' = [ proc EXCEPT ![p] = BatchRecord(D, @, req, rdy) ]
       /\ lock' = IF Suspends(req, rdy) THEN 0 ELSE p
    /\ SetDrivers(driver, client, proc')

\* 'disconnected': the handler starts destroyClient
DriverDisconnected(c) ==
    /\ Live(c)
    /\ CanStart
    /\ isReady' = (isReady /\ c # client)
    /\ DestroyClientStart(NewProc("evt"))
    /\ UNCHANGED << client, messageQueue, isProcessingQueue, driver, stale,
                    task, drain, lastTaken >>

\* -------------------------------------------------- the drain loop

\* client.isRegisteredUser settles: true, false or an error
RegisteredReply(l, ans) ==
    /\ Quiet
    /\ drain[l].pc = "checking"
    /\ drain' = [ drain EXCEPT ![l].ans = ans ]
    /\ UNCHANGED << client, connectionStatus, qrCodeData, messageQueue, isProcessingQueue,
                    driver, stale, isReady, task, proc, lock, lastTaken >>

\* client.sendMessage settles
SendReply(l, ans) ==
    /\ Quiet
    /\ drain[l].pc = "sending"
    /\ drain' = [ drain EXCEPT ![l].ans = ans ]
    /\ UNCHANGED << client, connectionStatus, qrCodeData, messageQueue, isProcessingQueue,
                    driver, stale, isReady, task, proc, lock, lastTaken >>

\* the loop resumes after its await on the driver
Resume(l) ==
    /\ drain[l].ans # "none"
    /\ SetQueueState(IF drain[l].pc = "checking"
                     THEN AfterRegistered(QueueState, l, drain[l].task, drain[l].ans, client)
                     ELSE AfterSend(QueueState, l, drain[l].task, drain[l].k, drain[l].ans, client))
    /\ UNCHANGED << client, connectionStatus, qrCodeData, driver, stale, isReady, proc, lock >>

\* the 3 s timer fires
PacingDone(l) ==
    /\ Quiet
    /\ drain[l].pc = "pacing"
    /\ SetQueueState(AfterPacing(QueueState, l, client))
    /\ UNCHANGED << client, connectionStatus, qrCodeData, driver, stale, isReady, proc, lock >>

Next ==
    \/ \E c \in Emitters : DriverQr(c)
    \/ \E c \in Emitters : DriverLoadingScreen(c)
    \/ \E c \in Emitters : DriverAuthenticated(c)
    \/ \E c \in Emitters : DriverAuthFailure(c)
    \/ \E c \in Emitters : DriverReady(c)
    \/ \E c \in Clients, req \in Requests : DriverReadyResume(c, req)
    \/ \E c \in Emitters : DriverDisconnected(c)
    \/ HttpDisconnect
    \/ \E req \in Requests : HttpSendBulk(req)
    \/ HttpSendBulkEnsure
    \/ \E p \in Procs, ok \in BOOLEAN : DestroyReply(p, ok)
    \/ \E p \in Procs : ClearAuthData(p)
    \/ \E p \in Procs : DisconnectedReinit(p)
    \/ \E p \in Procs : HttpDisconnectReset(p)
    \/ \E p \in Procs : HttpDisconnectReinit(p)
    \/ \E p \in Procs : EnsureReinit(p)
    \/ \E p \in Procs : ReadyTimeout(p)
    \/ \E p \in Procs : BatchRespond(p)
    \/ \E p \in Procs : Return(p)
    \/ \E p \in Procs : Forget(p)
    \/ \E l \in Loops, ans \in {"yes", "no", "error"} : RegisteredReply(l, ans)
    \/ \E l \in Loops, ans \in {"ok", "error"} : SendReply(l, ans)
    \/ \E l \in Loops : Resume(l)
    \/ \E l \in Loops : PacingDone(l)

Spec == Init /\ [][Next]_vars

\* what activation p runs next in the microtask queue
Continue(p) ==
    \/ ClearAuthData(p)
    \/ DisconnectedReinit(p)
    \/ HttpDisconnectReset(p)
    \/ HttpDisconnectReinit(p)
    \/ EnsureReinit(p)
    \/ BatchRespond(p)
    \/ Return(p)
    \/ Forget(p)

\* what activation p waits for outside: client.destroy() or the 30 s timer
Awaited(p) ==
    \/ \E ok \in BOOLEAN : DestroyReply(p, ok)
    \/ ReadyTimeout(p)

\* what loop l waits for outside: a driver call or the 3 s timer
LoopAwaited(l) ==
    \/ \E ans \in {"yes", "no", "error"} : RegisteredReply(l, ans)
    \/ \E ans \in {"ok", "error"} : SendReply(l, ans)
    \/ PacingDone(l)

\* the fairness the event loop and the driver give.  A continuation in the
\* microtask queue runs before anything else (weak fairness is enough: it
\* stays enabled).  A driver call settles and a timer fires however many
\* other callbacks run first (strong fairness: other handlers' microtask
\* chains disable it for a moment).  Requests and driver events may or may
\* not arrive.
Fairness ==
    /\ \A p \in Procs : WF_vars(Continue(p)) /\ SF_vars(Awaited(p))
    /\ \A l \in Loops : WF_vars(Resume(l)) /\ SF_vars(LoopAwaited(l))

FairSpec == Spec /\ Fairness

\* The server under requests of at most one recipient with a text: the
\* lifecycle, ensureConnection and the loop as in Next.
EnsureRequests == { Request(<<>>, NoBody), Request(<< Recipient(1) >>, TextBody) }

EnsureNext ==
    \/ \E c \in Emitters : DriverQr(c)
    \/ \E c \in Emitters : DriverLoadingScreen(c)
    \/ \E c \in Emitters : DriverAuthenticated(c)
    \/ \E c \in Emitters : DriverAuthFailure(c)
    \/ \E c \in Emitters : DriverReady(c)
    \/ \E c \in Clients, req \in EnsureRequests : DriverReadyResume(c, req)
    \/ \E c \in Emitters : DriverDisconnected(c)
    \/ HttpDisconnect
    \/ \E req \in EnsureRequests : HttpSendBulk(req)
    \/ HttpSendBulkEnsure
    \/ \E p \in Procs, ok \in BOOLEAN : DestroyReply(p, ok)
    \/ \E p \in Procs : ClearAuthData(p)
    \/ \E p \in Procs : DisconnectedReinit(p)
    \/ \E p \in Procs : HttpDisconnectReset(p)
    \/ \E p \in Procs : HttpDisconnectReinit(p)
    \/ \E p \in Procs : EnsureReinit(p)
    \/ \E p \in Procs : ReadyTimeout(p)
    \/ \E p \in Procs : BatchRespond(p)
    \/ \E p \in Procs : Return(p)
    \/ \E l \in Loops, ans \in {"yes", "no", "error"} : RegisteredReply(l, ans)
    \/ \E l \in Loops, ans \in {"ok", "error"} : SendReply(l, ans)
    \/ \E l \in Loops : Resume(l)
    \/ \E l \in Loops : PacingDone(l)

\* the fairness ensureConnection needs: continuations run, client.destroy()
\* settles and the 30 s timer fires
EnsureFairness ==
    /\ \A p \in Procs : WF_vars(Continue(p)) /\ SF_vars(Awaited(p))
    /\ \A l \in Loops : WF_vars(Resume(l))

EnsureSpec == Init /\ [][EnsureNext]_vars /\ EnsureFairness

\* ------------------------------------------------ the normalization
\* The handler of /send-bulk-messages and the loop while the client stays
\* ready, under requests of one recipient drawn from the strings over
\* RawChars and under the request of two recipients ExampleNumbers.

RawChars == {"2", "0", "+"}
RawStrings == UNION { [ 1..k -> RawChars ] : k \in 0..MaxRaw }

\* numbers = ["0100000001", "100000002"]
ExampleNumbers ==
    << << "0", "1", "0", "0", "0", "0", "0", "0", "0", "1" >>,
       << "1", "0", "0", "0", "0", "0", "0", "0", "2" >> >>

NormRequests ==
    { Request(<< raw >>, TextBody) : raw \in RawStrings }
    \cup { Request(ExampleNumbers, TextBody) }

NormNext ==
    \/ \E c \in Emitters : DriverReady(c)
    \/ \E req \in NormRequests : HttpSendBulk(req)
    \/ \E p \in Procs : BatchRespond(p)
    \/ \E p \in Procs : Return(p)
    \/ \E l \in Loops, ans \in {"yes", "no", "error"} : RegisteredReply(l, ans)
    \/ \E l \in Loops, ans \in {"ok", "error"} : SendReply(l, ans)
    \/ \E l \in Loops : Resume(l)
    \/ \E l \in Loops : PacingDone(l)

NormSpec == Init /\ [][NormNext]_vars

\* results.success of the report: the numbers of the fulfilled tasks
Delivered(rec, T) == [ i \in 1..Len(rec.success) |-> T[rec.success[i]].number ]

\* results.failed of the report: number and reason of the rejected tasks
Failed(rec, T) ==
    [ i \in 1..Len(rec.failed) |->
        [ number |-> T[rec.failed[i]].number, reason |-> T[rec.failed[i]].error ] ]

\* ------------------------------------------------------------- claims

Batches == { p \in Procs : proc[p].kind = "batch" }
Waiting == { p \in Batches : proc[p].pc = "awaiting" }
Reported == { p \in Batches : proc[p].pc = "done" /\ proc[p].resp = "200" }
InQueue(t) == \E j \in 1..Len(messageQueue) : messageQueue[j] = t
InFlight(t) == \E l \in Loops : drain[l].task = t
Count(seq, x) == Cardinality({ j \in 1..Len(seq) : seq[j] = x })
Running == { l \in Loops : drain[l].pc # "idle" }
Executing == { l \in Loops : drain[l].pc \in {"checking", "sending"} }

\* the tasks the loop takes in this step
TakenNow ==
    { t \in 1..Len(task') :
        /\ Len(task') >= Len(task)
        /\ task'[t].execs > (IF t <= Len(task) THEN task[t].execs ELSE 0) }

\* the driver instances constructed in this step
Constructed == { c \in Clients : driver[c] = "none" /\ driver'[c] = "live" }

\* C1: the report of a batch of N recipients lists every recipient exactly
\* once: success and failed together have N entries and no task is in both
C1_ReportComplete ==
    \A p \in Reported :
        /\ Len(proc[p].success) + Len(proc[p].failed) = proc[p].n
        /\ \A i \in 1..proc[p].n :
               Count(proc[p].success, proc[p].first + i)
               + Count(proc[p].failed, proc[p].first + i) = 1

C1_Witness ==
    \E p \in Reported : Len(proc[p].success) = 1 /\ Len(proc[p].failed) = 1

\* C2: at most one activation of the drain loop runs, so at most one task is
\* being executed against the driver, and isProcessingQueue says whether one runs
C2_SingleConsumer ==
    /\ Cardinality(Running) <= 1
    /\ isProcessingQueue <=> Running # {}

\* two requests wait for their tasks while the loop executes one of them
C2_Witness ==
    /\ Cardinality(Waiting) = 2
    /\ Executing # {}
    /\ Len(messageQueue) = 2

\* C3: the loop takes the tasks in the order they were pushed, one batch or
\* several: a task it takes was pushed after the task it took before, and no
\* other execution is under way when it takes one
C3_Fifo ==
    [][ \A t \in TakenNow : t > lastTaken /\ Executing = {} ]_vars

\* the first task pushed has been executed and has failed, the second is
\* being executed
C3_Witness ==
    /\ Len(task) = 2
    /\ task[1].execs = 1
    /\ task[1].state = "rejected"
    /\ task[2].execs = 1
    /\ InFlight(2)
    /\ lastTaken = 2

\* C4: a task is taken by the loop at most once and resolve/reject is called
\* on it at most once; once settled it is neither queued nor executed again
C4_AtMostOnce ==
    \A t \in 1..Len(task) :
        /\ task[t].execs <= 1
        /\ task[t].settles <= 1
        /\ task[t].state # "pending" => ~InQueue(t) /\ ~InFlight(t)

\* a failed task of a request that still waits, while a disconnect is handled
C4_Witness ==
    /\ \E t \in 1..Len(task) : task[t].state = "rejected" /\ task[t].execs = 1
    /\ \E p \in Procs : proc[p].kind \in {"evt", "http"} /\ proc[p].pc = "reinit"

\* C5: when isRegisteredUser answers false the loop calls no sendMessage for
\* the task and rejects it
C5_NotRegistered ==
    [][ \A l \in Loops :
          (drain[l].pc = "checking" /\ drain[l].ans = "no")
          => /\ drain'[l].pc # "sending"
             /\ task'[drain[l].task].state = "rejected" ]_vars

\* the driver answered false for a task that has a text to send
C5_Witness ==
    \E l \in Loops :
        /\ drain[l].pc = "checking"
        /\ drain[l].ans = "no"
        /\ task[drain[l].task].msg

\* C6 (as claimed): no task leaves the queue with its promise unsettled
C6_NoTaskDropped ==
    \A t \in 1..Len(task) : task[t].state = "pending" => InQueue(t) \/ InFlight(t)

\* C7 (as claimed): every request that waits for its tasks is answered
C7_BatchReturns ==
    \A p \in Procs :
        (proc[p].kind = "batch" /\ proc[p].pc = "awaiting") ~> (proc[p].pc = "done")

\* C8 (as claimed): the loop makes the first driver call of a task only
\* while connectionStatus is 'connected'
C8_StartsOnlyConnected ==
    [][ \A l \in Loops :
          (drain'[l].pc = "checking" /\ drain'[l].task \in TakenNow)
          => connectionStatus' = "connected" ]_vars

\* C9: the handler of one 'disconnected' event sets 'disconnected' when
\* destroyClient ends, keeps it until it re-initializes, then sets
\* 'initializing' and constructs exactly one driver, the new client; it
\* constructs none in its other steps
C9_DisconnectedReinit ==
    [][ \A p \in Procs :
          /\ (proc[p].pc = "idle" /\ proc'[p].kind = "evt")
                 => /\ connectionStatus' \in {"disconnecting", "disconnected"}
                    /\ Constructed = {}
          /\ proc[p].kind = "evt" =>
               /\ (proc[p].pc = "destroying" /\ proc'[p].pc # "destroying")
                      => /\ connectionStatus' = "disconnected"
                         /\ Constructed = {}
                         /\ proc'[p].pc = "wipe"
                         /\ lock' = p
               /\ (proc[p].pc = "wipe" /\ proc'[p].pc # "wipe")
                      => /\ connectionStatus' = "disconnected"
                         /\ Constructed = {}
                         /\ proc'[p].pc = "reinit"
                         /\ lock' = p
               /\ (proc[p].pc = "reinit" /\ proc'[p].pc # "reinit")
                      => /\ connectionStatus = "disconnected"
                         /\ connectionStatus' = "initializing"
                         /\ Constructed = {client'}
                         /\ proc'[p].pc = "done"
               /\ (proc[p].pc = "done" /\ proc'[p].pc # "done") => Constructed = {} ]_vars

\* the handler of a 'disconnected' event has re-initialized
C9_Witness ==
    \E p \in Procs :
        /\ proc[p].kind = "evt"
        /\ proc[p].pc = "done"
        /\ connectionStatus = "initializing"

\* C10 (as claimed): initializeWhatsApp constructs a driver only when it is
\* entered with the status 'disconnected'
C10_Idempotent ==
    [][ Constructed # {}
        => connectionStatus \notin {"initializing", "waiting-for-qr", "authenticating",
                                    "connected"} ]_vars

\* the Client instances constructed and not destroyed
LiveDrivers == { c \in Emitters : IF c = StaleClient THEN stale ELSE driver[c] = "live" }

\* C11 (as claimed): at most one constructed Client has not been destroyed
C11_OneLiveDriver == Cardinality(LiveDrivers) <= 1

\* C12 (as claimed): the handler of 'auth_failure' starts the wipe and the
\* re-initialization: its step constructs a driver or leaves a handler
\* activation running that will
C12_AuthFailureRestarts ==
    [][ (\E c \in Emitters : DriverAuthFailure(c))
        => \/ Constructed # {}
           \/ \E p \in Procs : proc[p].pc = "idle" /\ proc'[p].pc # "idle" ]_vars

\* the activations between the start of their teardown and the end of their wipe
TearingDown == { p \in Procs : proc[p].pc \in {"destroying", "wipe"} }

\* C13 (as claimed): no driver is constructed between the start of a
\* teardown and the end of its credential wipe
C13_WipeBeforeInit ==
    [][ Constructed # {} => TearingDown = {} ]_vars

\* --------------------------------- the first variant (lines 75-207)
\* The first server of the file has the same globals client,
\* connectionStatus and qrCodeData, the same destroyClient and the same body
\* of initializeWhatsApp, and no queue.  Its clearAuthData rethrows what
\* fs.rmSync throws, and its 'auth_failure' handler wipes and re-initializes.

FirstQr(c) ==
    /\ Live(c)
    /\ connectionStatus' = "waiting-for-qr"
    /\ qrCodeData' = TRUE
    /\ UNCHANGED << client, messageQueue, isProcessingQueue, driver, stale, isReady,
                    task, drain, proc, lock, lastTaken >>

FirstReady(c) ==
    /\ Live(c)
    /\ connectionStatus' = "connected"
    /\ qrCodeData' = FALSE
    /\ UNCHANGED << client, messageQueue, isProcessingQueue, driver, stale, isReady,
                    task, drain, proc, lock, lastTaken >>

FirstAuthenticated(c) ==
    /\ Live(c)
    /\ connectionStatus' = "authenticating"
    /\ UNCHANGED << client, qrCodeData, messageQueue, isProcessingQueue, driver, stale,
                    isReady, task, drain, proc, lock, lastTaken >>

\* 'auth_failure', and the rejection of client.initialize(): sets the status
\* and calls clearAuthData
FirstAuthFailure(c) ==
    /\ Live(c)
    /\ CanStart
    /\ connectionStatus' = "disconnected"
    /\ proc' = [ proc EXCEPT ![NewSlot] = [ NewProc("auth") EXCEPT !.pc = "wipe" ] ]
    /\ lock' = NewSlot
    /\ UNCHANGED << client, qrCodeData, messageQueue, isProcessingQueue, driver, stale,
                    isReady, task, drain, lastTaken >>

\* 'disconnected': the handler starts destroyClient
FirstDisconnected(c) ==
    /\ Live(c)
    /\ CanStart
    /\ DestroyClientStart(NewProc("evt"))
    /\ UNCHANGED << client, messageQueue, isProcessingQueue, driver, stale, isReady,
                    task, drain, lastTaken >>

\* POST /disconnect arrives
FirstHttpDisconnect ==
    /\ CanStart
    /\ DestroyClientStart(NewProc("http"))
    /\ UNCHANGED << client, messageQueue, isProcessingQueue, driver, stale, isReady,
                    task, drain, lastTaken >>

\* client.destroy() settles: the rest of destroyClient
FirstDestroyReply(p, ok) == DestroyReply(p, ok)

\* clearAuthData() returns (ok) or rethrows the error of fs.rmSync: the
\* event handlers end with an unhandled rejection, /disconnect answers 500
FirstClearAuthData(p, ok) ==
    /\ lock = p
    /\ proc[p].pc = "wipe"
    /\ proc' = [ proc EXCEPT ![p] =
                   IF ok THEN [ @ EXCEPT !.pc = "reinit" ]
                   ELSE IF @.kind = "http" THEN Answered(@, "500")
                   ELSE [ @ EXCEPT !.pc = "done" ] ]
    /\ UNCHANGED << client, connectionStatus, qrCodeData, messageQueue, isProcessingQueue,
                    driver, stale, isReady, task, drain, lock, lastTaken >>

\* initializeWhatsApp() after the wipe; /disconnect then answers
FirstReinit(p) ==
    /\ lock = p
    /\ proc[p].pc = "reinit"
    /\ proc' = [ proc EXCEPT ![p].pc = "done",
                             ![p].resp = IF proc[p].kind = "http" THEN "200" ELSE "none" ]
    /\ InitializeWhatsApp(proc')
    /\ UNCHANGED << qrCodeData, messageQueue, isProcessingQueue, task, drain,
                    lock, lastTaken >>

\* the handler returns
FirstReturn(p) == Return(p)

FirstNext ==
    \/ \E c \in Emitters : FirstQr(c)
    \/ \E c \in Emitters : FirstReady(c)
    \/ \E c \in Emitters : FirstAuthenticated(c)
    \/ \E c \in Emitters : FirstAuthFailure(c)
    \/ \E c \in Emitters : FirstDisconnected(c)
    \/ FirstHttpDisconnect
    \/ \E p \in Procs, ok \in BOOLEAN : FirstDestroyReply(p, ok)
    \/ \E p \in Procs, ok \in BOOLEAN : FirstClearAuthData(p, ok)
    \/ \E p \in Procs : FirstReinit(p)
    \/ \E p \in Procs : FirstReturn(p)

FirstSpec == Init /\ [][FirstNext]_vars

\* C14 (as claimed): in the first variant a handler that has wiped, with or
\* without an error, has re-initialized when it ends: a driver is installed
\* and the status is not 'disconnected'
C14_WipeErrorNoBlock ==
    \A p \in Procs :
        proc[p].pc = "done" => connectionStatus # "disconnected" /\ client # NoClient

\* C15: POST /disconnect of the queue-based server always answers success,
\* also when client.destroy() threw, and when it answers the status is
\* 'initializing', qrCodeData is null, the queue is empty and client is a
\* driver constructed by this step
C15_DisconnectAck ==
    [][ \A p \in Procs :
          (proc[p].kind = "http" /\ proc[p].pc # "done" /\ proc'[p].pc = "done")
          => /\ proc'[p].resp = "200"
             /\ connectionStatus' = "initializing"
             /\ ~qrCodeData'
             /\ messageQueue' = <<>>
             /\ client' # NoClient
             /\ Constructed = {client'} ]_vars

\* /disconnect has answered and the old driver, whose destroy() threw, is
\* still alive beside the new one
C15_Witness ==
    /\ \E p \in Procs : proc[p].kind = "http" /\ proc[p].pc = "done" /\ proc[p].resp = "200"
    /\ Cardinality(LiveDrivers) = 2
    /\ connectionStatus = "initializing"

\* C16 (as claimed): qrCodeData is non-null only while the status is
\* 'waiting-for-qr'
C16_QrOnlyWhilePairing == qrCodeData => connectionStatus = "waiting-for-qr"

\* C17 (as claimed): connectionStatus is always one of the six states
C17_SixStates ==
    connectionStatus \in {"disconnected", "initializing", "waiting-for-qr",
                          "authenticating", "connected", "disconnecting"}

\* C19 (as claimed): no SendTask exists that has neither a text nor a media file
C19_EmptyBatchRejected ==
    \A t \in 1..Len(task) : task[t].msg \/ Len(task[t].media) > 0

SameBatch(t, u) ==
    \E p \in Waiting :
        /\ proc[p].first < t /\ t <= proc[p].first + proc[p].n
        /\ proc[p].first < u /\ u <= proc[p].first + proc[p].n

\* C20: a failing task does not abort its batch.  In the step that rejects a
\* task the loop stays active (it starts its 3 s timer) and the later tasks
\* of the same batch stay queued and pending; the loop ends only when the
\* queue is empty; a request whose tasks were pushed is answered with a
\* report (200) and every rejected task of it is listed once in failed
C20_FailureNoAbort ==
    /\ [](\A p \in Batches :
            (proc[p].pc = "done" /\ proc[p].n > 0)
            => /\ proc[p].resp = "200"
               /\ \A i \in 1..proc[p].n :
                      task[proc[p].first + i].state = "rejected"
                      => Count(proc[p].failed, proc[p].first + i) = 1)
    /\ [][ /\ \A t \in 1..Len(task) :
                (Len(task') = Len(task) /\ task[t].state = "pending"
                                        /\ task'[t].state = "rejected")
                => /\ \E l \in Loops : drain'[l].pc = "pacing"
                   /\ isProcessingQueue'
                   /\ \A u \in 1..Len(task) :
                          (u > t /\ SameBatch(t, u) /\ InQueue(u))
                          => /\ task'[u].state = "pending"
                             /\ \E j \in 1..Len(messageQueue') : messageQueue'[j] = u
           /\ \A l \in Loops :
                (drain[l].pc = "pacing" /\ drain'[l].pc = "idle")
                => Len(messageQueue) = 0 ]_vars

\* the report of a batch whose first task failed and whose second task was
\* delivered after it
C20_Witness ==
    \E p \in Reported :
        /\ proc[p].failed = << proc[p].first + 1 >>
        /\ proc[p].success = << proc[p].first + 2 >>


\* C21: a request of /send-bulk-messages that arrives while the client is not
\* ready does not wait for ever: its handler leaves ensureConnection.  It
\* leaves the wait for 'ready' either in the step that handles 'ready' (the
\* status becomes 'connected') or by the timer, and then it is answered 500
\* and the queue, the tasks and the loop are as before
C21_EnsureBounded ==
    /\ \A p \in Procs :
          (proc[p].kind = "batch"
           /\ proc[p].pc \in {"destroying", "wipe", "reinit", "waitReady"})
          ~> (proc[p].pc \in {"awaiting", "done"})
    /\ [][ \A p \in Procs :
             (proc[p].pc = "waitReady" /\ proc'[p].pc # "waitReady")
             => \/ connectionStatus' = "connected" /\ ~qrCodeData'
                \/ /\ proc'[p].pc = "done"
                   /\ proc'[p].resp = "500"
                   /\ proc'[p].left = 0
                   /\ task' = task
                   /\ messageQueue' = messageQueue
                   /\ drain' = drain ]_vars

\* the timer of ensureConnection has fired while the status was not
\* 'connected': the request is answered 500
C21_Witness ==
    \E p \in Batches :
        /\ proc[p].pc = "done"
        /\ proc[p].resp = "500"
        /\ proc[p].left = 0
        /\ connectionStatus # "connected"

\* C22: the number of a task is the recipient without its non-digit
\* characters, with "20" in front if and only if these digits do not start
\* with "20"; so it has only digits and starts with "20"
C22_Normalized ==
    \A t \in 1..Len(task) :
        LET digits == SelectSeq(task[t].raw, LAMBDA c : c \in Digits)
            has20 == Len(digits) >= 2 /\ SubSeq(digits, 1, 2) = << "2", "0" >>
            number == task[t].number IN
        /\ has20 => number = digits
        /\ ~has20 => number = << "2", "0" >> \o digits
        /\ \A i \in 1..Len(number) : number[i] \in Digits
        /\ Len(number) >= 2 /\ SubSeq(number, 1, 2) = << "2", "0" >>

\* "+20" was normalized to "20" and "0" to "200"
C22_Witness ==
    /\ Len(task) = 2
    /\ task[1].raw = << "+", "2", "0" >> /\ task[1].number = << "2", "0" >>
    /\ task[2].raw = << "0" >> /\ task[2].number = << "2", "0", "0" >>

\* C23 (as claimed): the tasks of numbers = ["0100000001", "100000002"] have
\* the numbers "20100000001" and "20100000002", and when only the first is
\* registered the report is success = ["20100000001"] and failed =
\* [{"20100000002", not registered}]
C23_Example ==
    \A p \in Batches :
        (/\ proc[p].n = 2
         /\ proc[p].pc \in {"awaiting", "done"}
         /\ task[proc[p].first + 1].raw = ExampleNumbers[1]
         /\ task[proc[p].first + 2].raw = ExampleNumbers[2])
        => LET a == << "2", "0", "1", "0", "0", "0", "0", "0", "0", "0", "1" >>
               b == << "2", "0", "1", "0", "0", "0", "0", "0", "0", "0", "2" >> IN
           /\ task[proc[p].first + 1].number = a
           /\ task[proc[p].first + 2].number = b
           /\ (/\ proc[p].pc = "done"
               /\ task[proc[p].first + 1].state = "fulfilled"
               /\ task[proc[p].first + 2].error = "NotRegistered")
              => /\ Delivered(proc[p], task) = << a >>
                 /\ Failed(proc[p], task) = << [ number |-> b, reason |-> "NotRegistered" ] >>

\* C24: when sendMessage throws for media file k, or file k does not exist,
\* the loop sends no further file of the task: it rejects the task with the
\* error and starts its timer.  The files are sent in order, each once, and
\* nothing is sent for a task that is settled
C24_AttachmentFailure ==
    /\ [](\A l \in Loops :
            drain[l].pc = "sending" => task[drain[l].task].state = "pending")
    /\ [][ \A l \in Loops :
             LET t == drain[l].task
                 k == drain[l].k
                 media == task[t].media
                 next == IF drain[l].pc = "checking" THEN 1 ELSE k + 1
                 sendFails == drain[l].pc = "sending" /\ k >= 1 /\ drain[l].ans = "error"
                 fileFails ==
                     /\ \/ drain[l].pc = "checking" /\ drain[l].ans = "yes"
                        \/ drain[l].pc = "sending" /\ k >= 1 /\ drain[l].ans = "ok"
                     /\ next <= Len(media)
                     /\ media[next] \notin ExistingFiles IN
             (drain[l].ans # "none" /\ drain'[l].ans = "none")
             => /\ (sendFails \/ fileFails)
                    => /\ drain'[l].pc = "pacing"
                       /\ task'[t].state = "rejected"
                       /\ task'[t].error = IF sendFails THEN "DriverError" ELSE "FileMissing"
                       /\ task'[t].execs = task[t].execs
                /\ (drain[l].pc = "sending" /\ k >= 1 /\ drain'[l].pc = "sending")
                    => drain'[l].task = t /\ drain'[l].k = k + 1 ]_vars

\* sendMessage has thrown for the first of two media files
C24_Witness ==
    \E l \in Loops :
        /\ drain[l].pc = "sending"
        /\ drain[l].k = 1
        /\ drain[l].ans = "error"
        /\ Len(task[drain[l].task].media) = 2

\* C25 (as claimed): only the first media file of a task is sent with the
\* text as its caption
C25_CaptionOnFirst ==
    \A l \in Loops : (drain[l].pc = "sending" /\ drain[l].k > 1) => ~drain[l].caption

\* C26: the loop waits 3 s between two executions.  The step that settles a
\* task starts the timer; a task is taken only in the step of a timer that
\* fires or when no activation of the loop exists; and an activation ends
\* only in the step of its timer
C26_Paced ==
    [][ /\ \A t \in 1..Len(task) :
             (Len(task') = Len(task) /\ task[t].state = "pending"
                                     /\ task'[t].state # "pending")
             => \E l \in Loops : drain'[l].pc = "pacing"
        /\ TakenNow # {} => (\E l \in Loops : PacingDone(l)) \/ Running = {}
        /\ \A l \in Loops :
             (drain[l].pc # "idle" /\ drain'[l].pc = "idle") => PacingDone(l) ]_vars

\* the loop waits after the task of one request while the task of another
\* request is queued
C26_Witness ==
    /\ \E l \in Loops : drain[l].pc = "pacing"
    /\ Cardinality(Waiting) = 2
    /\ Len(messageQueue) = 1
    /\ lastTaken # NoTask
    /\ lastTaken # messageQueue[1]
    /\ task[lastTaken].state # "pending"

\* C27 (as claimed): a task leaves the queue only when the loop has executed
\* it or when a disconnect empties the queue
C27_ShiftsExecuted ==
    [][ \A u \in 1..Len(task) :
          (Len(task') = Len(task) /\ InQueue(u)
           /\ \A j \in 1..Len(messageQueue') : messageQueue'[j] # u)
          => \/ task'[u].execs >= 1
             \/ /\ messageQueue' = <<>>
                /\ \E p \in Procs : proc[p].pc = "reinit" /\ proc'[p].pc # "reinit" ]_vars

\* C28 (as claimed): between two callbacks the queue is empty when
\* isProcessingQueue is false, and isProcessingQueue is true exactly while
\* one activation of the loop exists
C28_QueueHasConsumer ==
    Quiet => /\ ~isProcessingQueue => messageQueue = <<>>
             /\ isProcessingQueue <=> Cardinality(Running) = 1

\* C29 (as claimed): an event of a driver instance that is not the current
\* client changes neither the status nor the QR payload nor the queue
C29_StaleEventsIgnored ==
    [][ (\E c \in Emitters :
            /\ c = StaleClient \/ c # client
            /\ \/ DriverQr(c)
               \/ DriverLoadingScreen(c)
               \/ DriverAuthenticated(c)
               \/ DriverAuthFailure(c)
               \/ DriverReady(c)
               \/ DriverDisconnected(c))
        => UNCHANGED << connectionStatus, qrCodeData, messageQueue >> ]_vars

====
